---- MODULE Spec2Model ----
(***************************************************************************)
(* ReflexRuntime: the exception-to-patch orchestration pipeline.           *)
(*                                                                         *)
(* SimpleOrchestrator.handle captures an ErrorContext, asks the LLM        *)
(* client for a PatchProposal, executes the proposed source in the         *)
(* resolved module namespace, writes a session record and reports a        *)
(* result; install_hook wraps sys.excepthook around handle.                *)
(*                                                                         *)
(* Source text is abstracted to what the interpreter does with it: a       *)
(* patch_code value records which name the header regex finds, whether     *)
(* the text compiles, which binding its execution performs and whether     *)
(* its execution raises.  Dotted names are sequences of components.        *)
(***************************************************************************)
EXTENDS Integers, Sequences, FiniteSets, TLC

\* ------------------------------------------------------------------ bounds

MaxCalls == 2       \* handle invocations in one run
MaxHooks == 2       \* install_hook invocations in one run
MaxClock == 1       \* the latest second the wall clock reaches in one run
MaxApplyCalls == 1  \* handle invocations in one run of the applier study
MaxLogCalls == 3    \* log_ai_session invocations in one run of the logger study

\* ------------------------------------------------------------ value spaces

None == "None"      \* Python's None, as a value of the model

\* Function bodies a name can be bound to, and non-callable values.
Callable(body) == body \in {"divide_orig", "divide_fixed", "literal", "helper_orig", "main_orig", "parse_orig", "parse_fixed"}

\* What calling a function object does on (a, b).
Call(body, a, b) ==
    CASE body = "divide_orig"  -> IF b = 0 THEN [kind |-> "raise", v |-> 0]
                                           ELSE [kind |-> "value", v |-> a \div b]
      [] body = "divide_fixed" -> IF b = 0 THEN [kind |-> "none", v |-> 0]
                                           ELSE [kind |-> "value", v |-> a \div b]
      [] body = "literal"      -> [kind |-> "value", v |-> 0]
      [] OTHER                 -> [kind |-> "raise", v |-> 0]

\* ------------------------------------------------------ exceptions, capture

\* Frames of the demo programs: the module-level frame, main() and the
\* failing function of the script, and a function of an imported module.
F_module == [co_name |-> "<module>", module |-> "__main__", file |-> "/app/demo1.py", line |-> 87]
F_main   == [co_name |-> "main",     module |-> "__main__", file |-> "/app/demo1.py", line |-> 54]
F_divide == [co_name |-> "divide",   module |-> "__main__", file |-> "/app/demo1.py", line |-> 21]
F_parse  == [co_name |-> "parse",    module |-> "mod",      file |-> "/app/mod.py",   line |-> 110]

\* A function of a module whose top-level code fails: the module is gone
\* from sys.modules again, and importing it anew raises what its code raises.
F_load   == [co_name |-> "load",     module |-> "broken",   file |-> "/app/broken.py", line |-> 7]

\* safe_api_call of the web demo, which catches what the function it wraps
\* raises: the head entry of the traceback it submits.
F_api    == [co_name |-> "safe_api_call", module |-> "__main__", file |-> "/app/demo3.py", line |-> 115]

\* A function of code that was read from a file and run under a module name
\* no import can find.
F_run    == [co_name |-> "run",      module |-> "plugin",   file |-> "/app/plugin.py", line |-> 3]

NoTb == <<>>

\* Traceback chains, head entry first, innermost (raising) frame last.
Tracebacks == { NoTb, <<F_divide>>, <<F_main, F_divide>>,
                <<F_module, F_main, F_divide>>, <<F_parse>>, <<F_load>>, <<F_run>> }

\* The literal get_session_stats looks for, as the words of the text.
StatusMarker == << "**Status:**", "SUCCESS" >>

\* str(exc_value) of the exceptions of the model, as the words of the text:
\* the interpreter's message, and a message that quotes a status line.
PlainMessage == << "division by zero" >>
QuotingMessage == << "saw" >> \o StatusMarker

\* An exception as handed to handle: (type, value, traceback).  str_raises
\* marks a value whose __str__ itself raises.
ExcMsg(tb, bad, msg) ==
    [ type |-> "ZeroDivisionError", message |-> msg, tb |-> tb, str_raises |-> bad ]

Exc(tb, bad) == ExcMsg(tb, bad, PlainMessage)

\* The exceptions the orchestration runs are driven with.
Exceptions ==
    { Exc(NoTb, FALSE), Exc(<<F_divide>>, FALSE), Exc(<<F_main, F_divide>>, FALSE),
      Exc(<<F_divide>>, TRUE) }

\* Every exception of the model.
AllExceptions == { Exc(tb, FALSE) : tb \in Tracebacks } \cup Exceptions

\* str(exc_value) propagates whatever the value's __str__ raises.
CaptureRaises(exc) == exc.str_raises

\* Capture as it would be if a missing traceback were treated as a failure
\* at module level.
CaptureWithoutSentinels(exc) ==
    LET frame == IF exc.tb = NoTb THEN F_module ELSE Head(exc.tb)
    IN  [ exception_type |-> exc.type,
          exception_message |-> exc.message,
          target_fqn     |-> IF frame.co_name = "<module>"
                             THEN <<"unknown", "module">>
                             ELSE <<frame.module, frame.co_name>>,
          file_path      |-> frame.file,
          line_number    |-> frame.line,
          source_code    |-> "window",
          local_vars     |-> frame.co_name ]

\* ErrorContext.from_traceback, for a value whose str() returns
from_traceback(exc) ==
    IF exc.tb = NoTb
    THEN [ exception_type |-> exc.type,
           exception_message |-> exc.message,
           target_fqn     |-> <<"unknown">>,
           file_path      |-> "unknown",
           line_number    |-> 0,
           source_code    |-> "",
           local_vars     |-> "{}" ]
    ELSE LET frame == Head(exc.tb)
             func_name == frame.co_name
         IN  [ exception_type |-> exc.type,
               exception_message |-> exc.message,
               target_fqn     |-> IF func_name = "<module>"
                                  THEN <<"unknown", "module">>
                                  ELSE <<frame.module, func_name>>,
               file_path      |-> frame.file,
               line_number    |-> frame.line,
               source_code    |-> "window",
               local_vars     |-> func_name ]

NoCtx == [ exception_type |-> "", exception_message |-> <<>>,
           target_fqn |-> <<>>, file_path |-> "",
           line_number |-> 0, source_code |-> "", local_vars |-> "{}" ]

\* ------------------------------------------------------------------ patches

NoName == "<no def header>"

\* patch_code values.  header: the name the pattern def\s+NAME\s*\( finds
\* first in the text; valid: the text compiles; effect/target/body: the
\* binding that running the compiled text performs before it finishes or
\* raises; raises: running it ends in a (non-syntax) exception.
Code(h, ok, eff, tgt, b, r) ==
    [ header |-> h, valid |-> ok, effect |-> eff, target |-> tgt, body |-> b, raises |-> r ]

C_fix        == Code("divide", TRUE,  "def",    "divide", "divide_fixed", FALSE)
C_literal    == Code("divide", TRUE,  "def",    "divide", "literal",      FALSE)
C_syntax     == Code("divide", FALSE, "none",   "divide", "divide_fixed", FALSE)
C_garbage    == Code(NoName,   FALSE, "none",   "divide", "divide_fixed", FALSE)
C_empty      == Code(NoName,   TRUE,  "none",   "divide", "divide_fixed", FALSE)
C_raise_pre  == Code("divide", TRUE,  "none",   "divide", "divide_fixed", TRUE)
C_raise_post == Code("divide", TRUE,  "def",    "divide", "divide_fixed", TRUE)
C_assign     == Code("divide", TRUE,  "assign", "divide", "int",          FALSE)
C_setnone    == Code("divide", TRUE,  "assign", "divide", None,           FALSE)
C_del        == Code("divide", TRUE,  "del",    "divide", "divide_fixed", TRUE)
C_helper     == Code("helper", TRUE,  "def",    "helper", "literal",      FALSE)
C_parse      == Code("parse",  TRUE,  "def",    "parse",  "parse_fixed",  FALSE)
C_newfn      == Code("newfn",  TRUE,  "def",    "newfn",  "literal",      FALSE)

PatchCodes == { C_fix, C_literal, C_syntax, C_garbage, C_empty, C_raise_pre,
                C_raise_post, C_assign, C_setnone, C_del, C_helper, C_parse, C_newfn }

\* PatchProposal
Proposal(code) == [ patch_code |-> code, explanation |-> "e" ]

NoProposal == [ patch_code |-> C_empty, explanation |-> None ]

\* ------------------------------------------------------- namespaces, heap

Modules == {"__main__", "mod"}

\* Module dictionaries at program start: the names bound in each module and
\* the object each is bound to.
InitNs ==
    [ m \in Modules |->
        IF m = "__main__"
        THEN [ n \in {"divide", "helper", "main"} |->
                 CASE n = "divide" -> 1 [] n = "helper" -> 2 [] OTHER -> 3 ]
        ELSE [ n \in {"parse"} |-> 4 ] ]

\* The same program after "from mod import parse" in the script.
ImportedNs ==
    [ InitNs EXCEPT !["__main__"] =
        [ n \in {"divide", "helper", "main", "parse"} |->
            CASE n = "divide" -> 1 [] n = "helper" -> 2 [] n = "main" -> 3 [] OTHER -> 4 ] ]

\* Objects at program start: object id -> what the object is.
InitHeap == << "divide_orig", "helper_orig", "main_orig", "parse_orig" >>

\* A script in which helper is module-level data (helper = 0), not a function.
DataNs == [ InitNs EXCEPT !["__main__"]["helper"] = 5 ]

DataHeap == Append(InitHeap, "int")

hasattr(nsv, m, n) == n \in DOMAIN nsv[m]

\* namespace.__dict__[n] = obj
Bind(d, n, obj) == [ x \in DOMAIN d \cup {n} |-> IF x = n THEN obj ELSE d[x] ]

\* del namespace.__dict__[n]
Unbind(d, n) == [ x \in DOMAIN d \ {n} |-> d[x] ]

\* getattr(namespace, name, None) is None: the attribute is missing, or it
\* is there and its value is None.
getattr_is_none(nsv, hp, m, n) ==
    ~hasattr(nsv, m, n) \/ hp[nsv[m][n]] = None

\* ----------------------------------------------------------- patch applier

\* _extract_function_name: the first match of the def-header pattern.
_extract_function_name(code) == code.header

\* fqn.split('.')[-1]
LastComponent(fqn) == fqn[Len(fqn)]

\* fqn.rsplit('.', 1)[0]: everything before the last dot, the whole string
\* when there is no dot.
ModulePath(fqn) == IF Len(fqn) = 1 THEN fqn ELSE SubSeq(fqn, 1, Len(fqn) - 1)

\* importlib.import_module(module_path): a loaded module, ImportError for a
\* module that cannot be found, or whatever the module's own code raises.
import_module(path) ==
    IF Len(path) = 1 /\ path[1] \in Modules THEN path[1]
    ELSE IF path = <<"broken">> THEN "RuntimeError"
    ELSE "ImportError"

\* Exception classes and issubclass, as far as the except clauses need it.
IsSubclass(cls, base) ==
    \/ cls = base
    \/ base = "Exception" /\ cls \in {"SyntaxError", "RuntimeError", "ImportError",
                                       "JSONDecodeError", "AttributeError",
                                       "ValidationError", "APIError"}

\* The clause that handles a raised exception: the first that matches.
SelectHandler(clauses, raised) ==
    LET hits == { i \in 1..Len(clauses) : IsSubclass(raised, clauses[i]) }
    IN  IF hits = {} THEN "propagate"
        ELSE clauses[CHOOSE i \in hits : \A j \in hits : i <= j]

\* The except clause around import_module.
ImportHandlers == << "ImportError" >>

\* Resolution as it would be if every failing import fell back to __main__.
ResolveWithFallback(nsv, fqn) ==
    LET func_name == LastComponent(fqn)
        module_path == ModulePath(fqn)
    IN  IF hasattr(nsv, "__main__", func_name) THEN "__main__"
        ELSE IF module_path # <<"unknown">> /\ import_module(module_path) \in Modules
             THEN import_module(module_path)
             ELSE "__main__"

\* _get_function_namespace: a module, or None from the outer except clause
\* when the import raises something the inner clause does not catch.
_get_function_namespace(nsv, fqn) ==
    LET func_name == LastComponent(fqn)
        module_path == ModulePath(fqn)
        module == import_module(module_path)
    IN  IF hasattr(nsv, "__main__", func_name) THEN "__main__"
        ELSE IF module_path # <<"unknown">>
             THEN IF module \in Modules THEN module
                  ELSE IF SelectHandler(ImportHandlers, module) = "ImportError"
                       THEN "__main__"
                       ELSE None
             ELSE "__main__"

\* exec() as it would be if a def overwrote the existing function object in
\* place instead of binding the name to a new object.
ExecInPlace(nsv, hp, m, code) ==
    IF code.valid /\ code.effect = "def" /\ hasattr(nsv, m, code.target)
    THEN [ ns     |-> nsv,
           heap   |-> [hp EXCEPT ![nsv[m][code.target]] = code.body],
           raised |-> IF code.raises THEN "RuntimeError" ELSE "none" ]
    ELSE [ ns |-> nsv, heap |-> hp,
           raised |-> IF code.valid THEN "none" ELSE "SyntaxError" ]

\* exec(patch_code, namespace.__dict__): the text is compiled as a whole
\* first, so a syntax error runs nothing; otherwise the binding the text
\* performs is made in the module dictionary (a def creates a new function
\* object), and the run may end in an exception.
Exec(nsv, hp, m, code) ==
    IF ~code.valid
    THEN [ ns |-> nsv, heap |-> hp, raised |-> "SyntaxError" ]
    ELSE LET out == IF code.raises THEN "RuntimeError" ELSE "none"
         IN  CASE code.effect \in {"def", "assign"} ->
                    [ ns     |-> [nsv EXCEPT ![m] = Bind(@, code.target, Len(hp) + 1)],
                      heap   |-> Append(hp, code.body),
                      raised |-> out ]
               [] code.effect = "del" ->
                    [ ns     |-> [nsv EXCEPT ![m] = Unbind(@, code.target)],
                      heap   |-> hp,
                      raised |-> out ]
               [] OTHER ->
                    [ ns |-> nsv, heap |-> hp, raised |-> out ]

\* The except clauses that follow exec(), in source order.
ExecHandlers == << "Exception", "SyntaxError" >>

\* _apply_llm_patch: result, and the namespace and heap it leaves.
_apply_llm_patch(nsv, hp, ctx, proposal) ==
    LET code      == proposal.patch_code
        func_name == _extract_function_name(code)
        namespace == _get_function_namespace(nsv, ctx.target_fqn)
        ran       == Exec(nsv, hp, namespace, code)
        handler   == IF ran.raised = "none" THEN "none"
                     ELSE SelectHandler(ExecHandlers, ran.raised)
        failed    == [ result |-> FALSE, ns |-> nsv, heap |-> hp, executed |-> FALSE ]
        after(r)  == [ result |-> r, ns |-> ran.ns, heap |-> ran.heap, executed |-> TRUE ]
    IN  IF func_name = NoName THEN failed
        ELSE IF namespace = None THEN failed
        ELSE IF ~hasattr(nsv, namespace, func_name) THEN failed
        ELSE IF handler = "Exception" /\ ~hasattr(ran.ns, namespace, func_name)
             THEN after(FALSE)
        ELSE IF handler = "SyntaxError" THEN after(FALSE)
        ELSE IF handler = "propagate" THEN after(FALSE)
        ELSE IF getattr_is_none(ran.ns, ran.heap, namespace, func_name)
             THEN after(FALSE)
        ELSE after(TRUE)

\* ------------------------------------------------------------ LLM generator

\* What the model service does with one request.  transport_ok: the call
\* returned a response object with a text in it; form: what the reply text
\* is: a JSON object with fields of the proposal's types ("json"), a JSON
\* object with a field of another type, such as "confidence": "high"
\* ("json_illtyped"), JSON that is not an object ("json_nonobject"), text
\* holding a fenced json block with such an object ("fenced",
\* "fenced_illtyped"), or none of these ("garbage");
\* has_patch_code: the parsed object carries the patch_code field.
Reply(ok, form, has, code) ==
    [ transport_ok |-> ok, form |-> form, has_patch_code |-> has, code |-> code ]

\* The replies the orchestration runs are driven with.
Replies ==
    { Reply(FALSE, "garbage", FALSE, C_empty),
      Reply(TRUE,  "garbage", FALSE, C_empty),
      Reply(TRUE,  "json",    FALSE, C_empty),
      Reply(TRUE,  "fenced",  TRUE,  C_fix),
      Reply(TRUE,  "json",    TRUE,  C_fix),
      Reply(TRUE,  "json",    TRUE,  C_literal),
      Reply(TRUE,  "json",    TRUE,  C_syntax),
      Reply(TRUE,  "json",    TRUE,  C_newfn) }

\* Replies that deviate from the requested shape, and a service call that
\* fails although the service had produced a well-formed text.
OddReplies ==
    { Reply(FALSE, "json",            TRUE,  C_fix),
      Reply(TRUE,  "json_illtyped",   TRUE,  C_fix),
      Reply(TRUE,  "json_nonobject",  FALSE, C_empty),
      Reply(TRUE,  "fenced_illtyped", TRUE,  C_fix),
      Reply(TRUE,  "fenced",          FALSE, C_empty) }

\* Every reply of the model: each patch text as a well-formed reply, and the
\* deviating ones.
AllReplies ==
    Replies \cup { Reply(TRUE, "json", TRUE, c) : c \in PatchCodes } \cup OddReplies

\* The reply before any request is made.
NoReply == Reply(TRUE, "none", FALSE, C_empty)

\* json.loads(response_text): parsed, or JSONDecodeError.
json_loads(reply) ==
    IF reply.form \in {"json", "json_illtyped", "json_nonobject"}
    THEN "parsed" ELSE "JSONDecodeError"

\* PatchProposal(patch_code=patch_data.get('patch_code', ''), ...) on the
\* parsed value: the proposal, with defaults for absent fields, or what the
\* construction raises (no .get on a non-object, a field of the wrong type).
BuildProposal(form) ==
    CASE form \in {"json", "fenced"}                     -> "proposal"
      [] form \in {"json_illtyped", "fenced_illtyped"}   -> "ValidationError"
      [] OTHER                                           -> "AttributeError"

\* re.search(r'```json\s*(\{.*?\})\s*```', response_text) finds a block.
HasFencedBlock(reply) == reply.form \in {"fenced", "fenced_illtyped"}

\* The except clauses of the generator, in source order: around the direct
\* parse, around the recovery pass, and around the whole method.
DirectHandlers == << "JSONDecodeError" >>

RecoveryHandlers == << "JSONDecodeError", "AttributeError" >>

OuterHandlers == << "Exception" >>

GeneratorNone == [ some |-> FALSE, proposal |-> NoProposal, raw |-> None ]

GeneratorPair(reply) ==
    [ some     |-> TRUE,
      proposal |-> Proposal(IF reply.has_patch_code THEN reply.code ELSE C_empty),
      raw      |-> "response_text" ]

\* The generator as it would be without the recovery pass.
ParseDirectOnly(reply) ==
    IF reply.transport_ok /\ json_loads(reply) = "parsed"
                          /\ BuildProposal(reply.form) = "proposal"
    THEN GeneratorPair(reply) ELSE GeneratorNone

\* The generator as it would be if a failed service call were not noticed.
TransportErrorIgnored(reply) ==
    IF reply.form \in {"json", "fenced"} THEN GeneratorPair(reply) ELSE GeneratorNone

\* LLMClient.analyze_exception_and_generate_patch_with_raw: None, or the
\* pair (proposal, response_text).
analyze_exception_and_generate_patch_with_raw(reply) ==
    LET direct   == IF json_loads(reply) = "parsed"
                    THEN BuildProposal(reply.form) ELSE json_loads(reply)
        recovery == IF HasFencedBlock(reply) THEN BuildProposal(reply.form) ELSE "no match"
    IN  IF ~reply.transport_ok /\ SelectHandler(OuterHandlers, "APIError") = "Exception"
        THEN GeneratorNone               \* the service call raised
        ELSE IF direct = "proposal" THEN GeneratorPair(reply)
        ELSE IF SelectHandler(DirectHandlers, direct) = "propagate"
             THEN GeneratorNone          \* caught by the outer clause
        ELSE IF recovery = "proposal" THEN GeneratorPair(reply)
        ELSE GeneratorNone               \* no block, or a clause returning None

\* LLMClient.analyze_exception_and_generate_patch: the proposal alone.
analyze_exception_and_generate_patch(reply) ==
    LET result == analyze_exception_and_generate_patch_with_raw(reply)
    IN  IF result.some THEN [ some |-> TRUE, proposal |-> result.proposal ]
        ELSE [ some |-> FALSE, proposal |-> NoProposal ]

\* ------------------------------------------------------------ session logger

\* DebugLogger._extract_program_name
_extract_program_name(file_path) ==
    CASE file_path = ""              -> "unknown"
      [] file_path = "/app/demo1.py" -> "demo1"
      [] file_path = "/app/mod.py"   -> "mod"
      [] file_path = "/app/broken.py" -> "broken"
      [] file_path = "/app/plugin.py" -> "plugin"
      [] file_path = "/app/demo3.py"  -> "demo3"
      [] OTHER                       -> file_path

\* The document as it would be if the banner followed the presence of a
\* proposal instead of the success flag.
MarkdownStatusFromProposal(ctx, has_proposal, success, raw, error_message) ==
    [ status |-> IF has_proposal THEN "SUCCESS" ELSE "FAILED",
      patch  |-> has_proposal,
      error  |-> IF success THEN None ELSE error_message,
      text   |-> << "**Status:**", IF has_proposal THEN "SUCCESS" ELSE "FAILED",
                    "**Message:**" >> \o ctx.exception_message \o << "### Full Traceback" >> ]

\* DebugLogger._generate_debug_markdown: the success flag the document was
\* rendered for (status), the result notice and the failure reason, and the
\* words of the document from the status line to the exception message.
_generate_debug_markdown(ctx, has_proposal, success, raw, error_message) ==
    [ status |-> IF success THEN "SUCCESS" ELSE "FAILED",
      patch  |-> has_proposal,
      error  |-> IF success THEN None ELSE error_message,
      text   |-> << "**Status:**", IF success THEN "SUCCESS" ELSE "FAILED",
                    "**Message:**" >> \o ctx.exception_message \o << "### Full Traceback" >> ]

\* The file name log_ai_session derives: program_function_epoch.md
SessionFile(ctx, epoch) ==
    << _extract_program_name(ctx.file_path), LastComponent(ctx.target_fqn), epoch >>

\* DebugLogger.log_ai_session: the directory after the call.  open(path, 'w')
\* creates the file or replaces the content of an existing one; a failing
\* write is caught and leaves the directory as it was.
log_ai_session(dir, epoch, write_ok, ctx, has_proposal, success, raw, error_message) ==
    IF ~write_ok THEN dir
    ELSE LET filename == SessionFile(ctx, epoch)
             content  == _generate_debug_markdown(ctx, has_proposal, success, raw, error_message)
         IN  [ f \in DOMAIN dir \cup {filename} |->
                 IF f = filename THEN content ELSE dir[f] ]

\* pattern in content: the words of pattern occur in content, in a row.
Contains(content, pattern) ==
    \E i \in 1..(Len(content) - Len(pattern) + 1) :
        SubSeq(content, i, i + Len(pattern) - 1) = pattern

\* The names that occur in file names, in the order of str comparison.
NameOrder == << "broken", "demo1", "demo3", "divide", "load", "main", "mod",
                "module", "parse", "plugin", "run", "safe_api_call", "unknown" >>

StrLess(x, y) ==
    \E i, j \in 1..Len(NameOrder) : NameOrder[i] = x /\ NameOrder[j] = y /\ i < j

\* f < g for the file names program_function_epoch.md as str compares them:
\* by program, then function, then epoch (epochs of the same number of
\* digits, as they are for several centuries).
FileLess(f, g) ==
    \/ StrLess(f[1], g[1])
    \/ f[1] = g[1] /\ StrLess(f[2], g[2])
    \/ f[1] = g[1] /\ f[2] = g[2] /\ f[3] < g[3]

\* files.sort(reverse=True)
RECURSIVE SortReverse(_)
SortReverse(names) ==
    IF names = {} THEN << >>
    ELSE LET top == CHOOSE f \in names : \A g \in names : ~FileLess(f, g)
         IN  << top >> \o SortReverse(names \ {top})

\* DebugLogger.list_debug_sessions
list_debug_sessions(dir) == SortReverse(DOMAIN dir)

\* successful_sessions / total_sessions * 100, as the fraction it denotes;
\* the int 0 for an empty directory.
Rate(successful, total) ==
    IF total > 0 THEN [ num |-> successful * 100, den |-> total ]
    ELSE [ num |-> 0, den |-> 1 ]

\* DebugLogger.get_session_stats; unreadable: the files whose open or read
\* raises, which the loop skips.
get_session_stats(dir, unreadable) ==
    LET sessions   == list_debug_sessions(dir)
        total      == Len(sessions)
        successful == Cardinality({ i \in 1..total :
                          /\ sessions[i] \notin unreadable
                          /\ Contains(dir[sessions[i]].text, StatusMarker) })
    IN  [ total_sessions      |-> total,
          successful_sessions |-> successful,
          failed_sessions     |-> total - successful,
          success_rate        |-> Rate(successful, total) ]

\* -------------------------------------------------------------------- state

VARIABLES
    ns,               \* module dictionaries: module -> name -> object id
    heap,             \* objects: object id -> body or value
    patches_applied,  \* SimpleOrchestrator.patches_applied
    hooks,            \* reflex_excepthook layers wrapped around sys.excepthook
    files,            \* the debug directory: file name -> document
    clock,            \* the last value int(time.time()) returned
    logger_created,   \* _global_debug_logger is not None
    llm_env,          \* what get_llm_client() does in this process
    calls,            \* handle invocations so far
    th,               \* per thread: position in handle / the hook, and locals
    reader            \* what the last call of the read side returned

vars == << ns, heap, patches_applied, hooks, files, clock, logger_created,
           llm_env, calls, th, reader >>

\* No read-side call has returned since the last write.
NoRead ==
    [ op |-> "none", unreadable |-> {}, listing |-> << >>,
      stats |-> [ total_sessions |-> 0, successful_sessions |-> 0,
                  failed_sessions |-> 0, success_rate |-> Rate(0, 0) ] ]

\* A thread that is not handling anything.
Idle ==
    [ pc            |-> "idle",
      mode          |-> "none",        \* "direct": handle called by the program; "hook": by reflex_excepthook
      exc           |-> [type |-> "ZeroDivisionError", message |-> <<>>, tb |-> NoTb, str_raises |-> FALSE],
      layer         |-> 0,             \* the hook layer now running (hooks = outermost, 0 = original handler)
      ctx           |-> NoCtx,
      has_proposal  |-> FALSE,         \* patch_proposal is not None
      proposal      |-> NoProposal,
      raw           |-> None,
      reply         |-> NoReply,       \* what the model service did in this handle call
      success       |-> FALSE,
      error_message |-> None,
      ret           |-> "pending",     \* what handle returned: "True", "False", "None"
      \* history of the current exception / handle call
      applied       |-> "not called",  \* what _apply_llm_patch returned in this handle call
      executed      |-> FALSE,         \* exec() was reached in this handle call
      rebound       |-> FALSE,         \* exec() bound func_name to a new function object
      target        |-> NoName,        \* func_name of this handle call's apply
      space         |-> "__main__",    \* namespace resolved by this handle call's apply
      trace         |-> <<>>,          \* stages of this handle call, in order
      faults        |-> {},            \* stages that raised in this handle call
      wrote         |-> FALSE,         \* this handle call wrote a session file
      logname       |-> << "", "", 0 >>,  \* the session file this handle call wrote
      orig_exc      |-> [type |-> "", message |-> <<>>, tb |-> NoTb, str_raises |-> FALSE],  \* what the original handler was called with
      handles       |-> 0,             \* handle calls made for this exception
      orig_calls    |-> 0,             \* original-handler calls made for this exception
      orig_after    |-> <<>>,          \* handle results seen before the original handler ran
      ns0           |-> InitNs,        \* module dictionaries when this handle call began
      heap0         |-> InitHeap,      \* objects when this handle call began
      pa0           |-> 0,             \* patches_applied when this handle call began
      nfiles0       |-> 0,             \* number of session files when this handle call began
      loaded        |-> 0,             \* self.patches_applied as read by the += of this handle call
      api           |-> [ n |-> 0, b |-> 0, out |-> [kind |-> "pending", v |-> 0] ] ]
                                       \* safe_api_call: calls of the function so far, its
                                       \* second argument, and what safe_api_call returned

Init ==
    /\ ns = InitNs
    /\ heap = InitHeap
    /\ patches_applied = 0
    /\ hooks = 0
    /\ files = << >>
    /\ clock = 0
    /\ logger_created = FALSE
    /\ llm_env \in {"client", "no api key", "none"}
    /\ calls = 0
    /\ th = [ t \in {"main"} |-> Idle ]
    /\ reader = NoRead

\* The threads of the run.
Threads == DOMAIN th

AtRest(t) ==
    \/ th[t].pc \in {"idle", "done"}
    \/ th[t].pc = "returned" /\ th[t].mode = "direct"

\* The locals of a fresh handle call, for exception e, on thread t.
Enter(t, e, mode, layer, handles, origAfter) ==
    [ Idle EXCEPT !.pc = "capture", !.mode = mode, !.exc = e, !.layer = layer,
                  !.handles = handles, !.orig_after = origAfter,
                  !.ns0 = ns, !.heap0 = heap, !.pa0 = patches_applied,
                  !.nfiles0 = Cardinality(DOMAIN files) ]

\* ------------------------------------------------------ handle's decisions

\* Where handle goes after the generator call, as it would be if a missing
\* proposal were retried.
RetryWhenNoProposal(some) == IF some THEN "apply" ELSE "generate"

\* handle, after the generator call: apply when there is a proposal, else
\* straight to the session log.
AfterGenerate(some) == IF some THEN "apply" ELSE "log"

\* handle's result as it would be if it reported the presence of a proposal.
ReturnHasProposal(success, has_proposal) == IF has_proposal THEN "True" ELSE "False"

\* handle, end of the inner try: return success
NormalReturn(success, has_proposal) == IF success THEN "True" ELSE "False"

\* An except clause that ends without a return statement.
ReturnMissing == "None"

\* handle, outer except clause: return False
OuterExceptReturn == "False"

\* handle, except clause of the inner try: return False
InnerExceptReturn == "False"

\* reflex_excepthook as it would be if it always chained to the old handler.
AlwaysCallsOriginal(ret) == TRUE

\* reflex_excepthook: original_excepthook is called unless handled is true.
CallsOriginal(ret) == ret # "True"

\* safe_api_call as it would be if it retried whatever handle returned.
RetriesAlways(healed) == TRUE

\* safe_api_call: if healed
Retries(healed) == healed = "True"

\* The hook chain as it would be if every layer had captured the handler
\* that was there before the first install_hook.
OriginalIsFirstHandler(layer) == 0

\* original_excepthook of the reflex_excepthook at a layer: what
\* sys.excepthook was when that layer was installed, the layer below
\* (0: the handler that was there before the first install_hook).
original_excepthook(layer) == layer - 1

\* ------------------------------------------------------------------ actions

\* SimpleOrchestrator.install_hook (install_autopatch, activate_reflex_runtime):
\* a new reflex_excepthook wraps whatever sys.excepthook was.
install_hook(t) ==
    /\ AtRest(t)
    /\ hooks < MaxHooks
    /\ hooks' = hooks + 1
    /\ UNCHANGED << ns, heap, patches_applied, files, clock, logger_created,
                    llm_env, calls, th >>
    /\ UNCHANGED reader

\* The program catches an exception and submits it: orchestrator.handle(...)
Submit(t, excs, limit) ==
    /\ AtRest(t)
    /\ calls < limit
    /\ \E e \in excs :
         th' = [th EXCEPT ![t] = Enter(t, e, "direct", 0, 1, <<>>)]
    /\ calls' = calls + 1
    /\ UNCHANGED << ns, heap, patches_applied, hooks, files, clock,
                    logger_created, llm_env >>
    /\ UNCHANGED reader

HandleDirect(t) == Submit(t, Exceptions, MaxCalls)

HandleAny(t) == Submit(t, AllExceptions, MaxApplyCalls)

\* An uncaught exception reaches sys.excepthook: the outermost
\* reflex_excepthook calls orchestrator.handle(exc_type, exc_value, tb).
Uncaught(t) ==
    /\ AtRest(t)
    /\ hooks >= 1
    /\ calls + hooks <= MaxCalls
    /\ \E e \in Exceptions :
         th' = [th EXCEPT ![t] = Enter(t, e, "hook", hooks, 1, <<>>)]
    /\ calls' = calls + 1
    /\ UNCHANGED << ns, heap, patches_applied, hooks, files, clock,
                    logger_created, llm_env >>
    /\ UNCHANGED reader

\* handle: ErrorContext.from_traceback; a fault goes to the outer except
\* clause, which returns False.
Capture(t) ==
    /\ th[t].pc = "capture"
    /\ th' = [th EXCEPT ![t] =
                IF CaptureRaises(th[t].exc)
                THEN [ @ EXCEPT !.pc = "returned", !.ret = OuterExceptReturn,
                                !.faults = @ \cup {"capture"},
                                !.trace = Append(@, "capture") ]
                ELSE [ @ EXCEPT !.pc = "client",
                                !.ctx = from_traceback(th[t].exc),
                                !.trace = Append(@, "capture") ]]
    /\ UNCHANGED << ns, heap, patches_applied, hooks, files, clock,
                    logger_created, llm_env, calls >>
    /\ UNCHANGED reader

\* handle: get_llm_client().  LLMClient() raises without an API key (outer
\* except clause: return False); a None client sets the failure locals and
\* falls off the end of handle; otherwise the generator is called.
GetClient(t) ==
    /\ th[t].pc = "client"
    /\ th' = [th EXCEPT ![t] =
                CASE llm_env = "no api key" ->
                        [ @ EXCEPT !.pc = "returned", !.ret = OuterExceptReturn,
                                   !.faults = @ \cup {"client"} ]
                  [] llm_env = "none" ->
                        [ @ EXCEPT !.pc = "returned", !.ret = "None",
                                   !.error_message = "LLM client not available" ]
                  [] OTHER ->
                        [ @ EXCEPT !.pc = "generate" ]]
    /\ UNCHANGED << ns, heap, patches_applied, hooks, files, clock,
                    logger_created, llm_env, calls >>
    /\ UNCHANGED reader

\* handle: the generator call and the unpacking of its result.
GenerateFrom(t, replies) ==
    /\ th[t].pc = "generate"
    /\ \E reply \in replies :
         LET response_data == analyze_exception_and_generate_patch_with_raw(reply)
         IN  th' = [th EXCEPT ![t] =
                      IF response_data.some
                      THEN [ @ EXCEPT !.pc = AfterGenerate(TRUE),
                                      !.has_proposal = TRUE,
                                      !.proposal = response_data.proposal,
                                      !.raw = response_data.raw,
                                      !.reply = reply,
                                      !.trace = Append(@, "generate") ]
                      ELSE [ @ EXCEPT !.pc = AfterGenerate(FALSE),
                                      !.has_proposal = FALSE,
                                      !.raw = "No response from LLM",
                                      !.error_message = "LLM could not generate a patch",
                                      !.success = FALSE,
                                      !.reply = reply,
                                      !.trace = Append(@, "generate") ]]
    /\ UNCHANGED << ns, heap, patches_applied, hooks, files, clock,
                    logger_created, llm_env, calls >>
    /\ UNCHANGED reader

Generate(t) == GenerateFrom(t, Replies)

GenerateAny(t) == GenerateFrom(t, AllReplies)

\* handle: success = self._apply_llm_patch(ctx, patch_proposal), and the
\* counter and message that follow from it.
Apply(t) ==
    /\ th[t].pc = "apply"
    /\ LET r         == _apply_llm_patch(ns, heap, th[t].ctx, th[t].proposal)
           func_name == _extract_function_name(th[t].proposal.patch_code)
           space     == _get_function_namespace(ns, th[t].ctx.target_fqn)
       IN  /\ ns' = r.ns
           /\ heap' = r.heap
           /\ patches_applied' = IF r.result THEN patches_applied + 1 ELSE patches_applied
           /\ th' = [th EXCEPT ![t] =
                        [ @ EXCEPT !.pc = "log",
                                   !.success = r.result,
                                   !.error_message = IF r.result THEN None
                                                     ELSE "Patch application failed",
                                   !.applied = IF r.result THEN "True" ELSE "False",
                                   !.executed = r.executed,
                                   !.target = func_name,
                                   !.space = space,
                                   !.rebound = /\ space # None
                                               /\ hasattr(r.ns, space, func_name)
                                               /\ hasattr(ns, space, func_name)
                                                     => r.ns[space][func_name] # ns[space][func_name]
                                               /\ Callable(r.heap[r.ns[space][func_name]]),
                                   !.trace = Append(@, "apply") ]]
    /\ UNCHANGED << hooks, files, clock, logger_created, llm_env, calls >>
    /\ UNCHANGED reader

\* handle: get_debug_logger() and log_ai_session(), then return success.
\* get_debug_logger() builds the DebugLogger on first use and raises when the
\* directory cannot be created: that lands in the except clause of the inner
\* try.  log_ai_session catches its own write failures.
Log(t) ==
    /\ th[t].pc = "log"
    /\ \E mkdir_ok \in BOOLEAN, write_ok \in BOOLEAN, now \in clock..MaxClock :
         IF logger_created \/ mkdir_ok
         THEN /\ logger_created' = TRUE
              /\ clock' = now
              /\ files' = log_ai_session(files, now, write_ok, th[t].ctx,
                                         th[t].has_proposal, th[t].success,
                                         th[t].raw, th[t].error_message)
              /\ th' = [th EXCEPT ![t] =
                          [ @ EXCEPT !.pc = "returned",
                                     !.ret = NormalReturn(th[t].success, th[t].has_proposal),
                                     !.wrote = write_ok,
                                     !.logname = IF write_ok THEN SessionFile(th[t].ctx, now) ELSE @,
                                     !.faults = IF write_ok THEN @ ELSE @ \cup {"write"},
                                     !.trace = Append(@, "log") ]]
         ELSE /\ th' = [th EXCEPT ![t] =
                          [ @ EXCEPT !.pc = "log_err",
                                     !.success = FALSE,
                                     !.faults = @ \cup {"logger"},
                                     !.error_message = "LLM integration error" ]]
              /\ UNCHANGED << files, logger_created, clock >>
    /\ UNCHANGED << ns, heap, patches_applied, hooks, llm_env, calls >>
    /\ UNCHANGED reader

\* handle, except clause of the inner try: log the failed session inside its
\* own try, then return False.
LogAfterError(t) ==
    /\ th[t].pc = "log_err"
    /\ \E mkdir_ok \in BOOLEAN, write_ok \in BOOLEAN, now \in clock..MaxClock :
         IF logger_created \/ mkdir_ok
         THEN /\ logger_created' = TRUE
              /\ clock' = now
              /\ files' = log_ai_session(files, now, write_ok, th[t].ctx,
                                         FALSE, FALSE, None, th[t].error_message)
              /\ th' = [th EXCEPT ![t] =
                          [ @ EXCEPT !.pc = "returned", !.ret = InnerExceptReturn,
                                     !.wrote = write_ok,
                                     !.logname = IF write_ok THEN SessionFile(th[t].ctx, now) ELSE @,
                                     !.faults = IF write_ok THEN @ ELSE @ \cup {"write"},
                                     !.trace = Append(@, "log") ]]
         ELSE /\ th' = [th EXCEPT ![t] =
                          [ @ EXCEPT !.pc = "returned", !.ret = InnerExceptReturn ]]
              /\ UNCHANGED << files, logger_created, clock >>
    /\ UNCHANGED << ns, heap, patches_applied, hooks, llm_env, calls >>
    /\ UNCHANGED reader

\* reflex_excepthook after handle has returned: a true result ends the hook;
\* anything else calls original_excepthook, which is the next reflex layer
\* or, below the first layer, the handler that was there before.
HookDecide(t) ==
    /\ th[t].pc = "returned"
    /\ th[t].mode = "hook"
    /\ LET seen == Append(th[t].orig_after, th[t].ret)
       IN  IF ~CallsOriginal(th[t].ret)
           THEN /\ th' = [th EXCEPT ![t] = [ @ EXCEPT !.pc = "done" ]]
                /\ calls' = calls
           ELSE IF original_excepthook(th[t].layer) = 0
           THEN /\ th' = [th EXCEPT ![t] =
                            [ @ EXCEPT !.pc = "orig", !.layer = 0, !.orig_after = seen ]]
                /\ calls' = calls
           ELSE /\ th' = [th EXCEPT ![t] =
                            Enter(t, th[t].exc, "hook", original_excepthook(th[t].layer),
                                  th[t].handles + 1, seen)]
                /\ calls' = calls + 1
    /\ UNCHANGED << ns, heap, patches_applied, hooks, files, clock,
                    logger_created, llm_env >>
    /\ UNCHANGED reader

\* The handler that was installed before the first install_hook runs.
Original(t) ==
    /\ th[t].pc = "orig"
    /\ th' = [th EXCEPT ![t] =
                [ @ EXCEPT !.pc = "done", !.orig_calls = @ + 1, !.orig_exc = th[t].exc ]]
    /\ UNCHANGED << ns, heap, patches_applied, hooks, files, clock,
                    logger_created, llm_env, calls >>
    /\ UNCHANGED reader

\* One thread: the program as the demos run it.
Next ==
    \E t \in {"main"} :
         \/ install_hook(t)
         \/ HandleDirect(t)
         \/ Uncaught(t)
         \/ Capture(t)
         \/ GetClient(t)
         \/ Generate(t)
         \/ Apply(t)
         \/ Log(t)
         \/ LogAfterError(t)
         \/ HookDecide(t)
         \/ Original(t)

Spec == Init /\ [][Next]_vars

\* The generator and applier study: handle submitted directly, with a
\* working client, for every exception, every reply and every patch text of
\* the model, on the program as started, on the program after
\* "from mod import parse", and on a script whose helper is data.
InitApply ==
    /\ ns \in {InitNs, ImportedNs, DataNs}
    /\ heap = IF ns = DataNs THEN DataHeap ELSE InitHeap
    /\ patches_applied = 0
    /\ hooks = 0
    /\ files = << >>
    /\ clock = 0
    /\ logger_created = FALSE
    /\ llm_env = "client"
    /\ calls = 0
    /\ th = [ t \in {"main"} |-> [ Idle EXCEPT !.ns0 = ns ] ]
    /\ reader = NoRead

\* The arguments the web demo divides by.
Divisors == {0, 2}

\* safe_api_call(divide, 4, b): the function is called; what it returns is
\* returned; what it raises is caught and submitted to handle.
safe_api_call(t) ==
    /\ AtRest(t)
    /\ calls < MaxApplyCalls
    /\ hasattr(ns, "__main__", "divide")
    /\ Callable(heap[ns["__main__"]["divide"]])
    /\ \E b \in Divisors :
         LET r == Call(heap[ns["__main__"]["divide"]], 4, b)
         IN  th' = [th EXCEPT ![t] =
                      IF r.kind = "raise"
                      THEN [ Enter(t, Exc(<<F_api, F_divide>>, FALSE), "api", 0, 1, <<>>)
                               EXCEPT !.api = [ n |-> 1, b |-> b, out |-> @.out ] ]
                      ELSE [ Idle EXCEPT !.pc = "done", !.mode = "api",
                                         !.api = [ n |-> 1, b |-> b, out |-> r ] ]]
    /\ calls' = calls + 1
    /\ UNCHANGED << ns, heap, patches_applied, hooks, files, clock,
                    logger_created, llm_env, reader >>

\* safe_api_call after handle has returned: if healed, the function is
\* looked up by name in the module and called once more, and what that call
\* raises is caught; in every other case None is returned.
ApiRetry(t) ==
    /\ th[t].pc = "returned"
    /\ th[t].mode = "api"
    /\ LET none == [kind |-> "none", v |-> 0]
           found == hasattr(ns, "__main__", "divide")
           r == Call(heap[ns["__main__"]["divide"]], 4, th[t].api.b)
       IN  th' = [th EXCEPT ![t] =
                    IF ~Retries(th[t].ret)
                    THEN [ @ EXCEPT !.pc = "done", !.api.out = none ]
                    ELSE IF ~found
                    THEN [ @ EXCEPT !.pc = "done", !.api.out = none ]
                    ELSE [ @ EXCEPT !.pc = "done", !.api.n = @ + 1,
                                    !.api.out = IF r.kind = "raise" THEN none ELSE r ]]
    /\ UNCHANGED << ns, heap, patches_applied, hooks, files, clock,
                    logger_created, llm_env, calls, reader >>

NextApply ==
    \E t \in {"main"} :
         \/ HandleAny(t)
         \/ safe_api_call(t)
         \/ ApiRetry(t)
         \/ Capture(t)
         \/ GetClient(t)
         \/ GenerateAny(t)
         \/ Apply(t)
         \/ Log(t)
         \/ LogAfterError(t)

SpecApply == InitApply /\ [][NextApply]_vars

\* The thread study: two threads, each raising one ZeroDivisionError in
\* divide and submitting it to handle; the model replies with valid patches.
\* self.patches_applied += 1 is a read of the attribute followed by a write,
\* and another thread may run in between.
ThreadNames == {"main", "worker"}

ValidReplies == { Reply(TRUE, "json", TRUE, C_fix), Reply(TRUE, "json", TRUE, C_literal) }

InitThreads ==
    /\ ns = InitNs
    /\ heap = InitHeap
    /\ patches_applied = 0
    /\ hooks = 0
    /\ files = << >>
    /\ clock = 0
    /\ logger_created = FALSE
    /\ llm_env = "client"
    /\ calls = 0
    /\ th = [ t \in ThreadNames |-> Idle ]
    /\ reader = NoRead

\* A thread's call of divide raises and the thread submits the exception.
Raise(t) ==
    /\ th[t].pc = "idle"
    /\ th' = [th EXCEPT ![t] = Enter(t, Exc(<<F_divide>>, FALSE), "direct", 0, 1, <<>>)]
    /\ calls' = calls + 1
    /\ UNCHANGED << ns, heap, patches_applied, hooks, files, clock,
                    logger_created, llm_env, reader >>

GenerateValid(t) == GenerateFrom(t, ValidReplies)

\* handle: success = self._apply_llm_patch(ctx, patch_proposal)
ApplyExec(t) ==
    /\ th[t].pc = "apply"
    /\ LET r         == _apply_llm_patch(ns, heap, th[t].ctx, th[t].proposal)
           func_name == _extract_function_name(th[t].proposal.patch_code)
           space     == _get_function_namespace(ns, th[t].ctx.target_fqn)
       IN  /\ ns' = r.ns
           /\ heap' = r.heap
           /\ th' = [th EXCEPT ![t] =
                        [ @ EXCEPT !.pc = IF r.result THEN "load" ELSE "log",
                                   !.success = r.result,
                                   !.error_message = IF r.result THEN None
                                                     ELSE "Patch application failed",
                                   !.applied = IF r.result THEN "True" ELSE "False",
                                   !.executed = r.executed,
                                   !.target = func_name,
                                   !.space = space,
                                   !.trace = Append(@, "apply") ]]
    /\ UNCHANGED << patches_applied, hooks, files, clock, logger_created,
                    llm_env, calls, reader >>

\* The += as it would be if the sum were dropped.
PlusNothing(loaded) == loaded

\* self.patches_applied += 1: the value that is written back
PlusOne(loaded) == loaded + 1

\* self.patches_applied += 1: the attribute is read
CounterLoad(t) ==
    /\ th[t].pc = "load"
    /\ th' = [th EXCEPT ![t] = [ @ EXCEPT !.pc = "store", !.loaded = patches_applied ]]
    /\ UNCHANGED << ns, heap, patches_applied, hooks, files, clock,
                    logger_created, llm_env, calls, reader >>

\* self.patches_applied += 1: the sum is written
CounterStore(t) ==
    /\ th[t].pc = "store"
    /\ patches_applied' = PlusOne(th[t].loaded)
    /\ th' = [th EXCEPT ![t] = [ @ EXCEPT !.pc = "log" ]]
    /\ UNCHANGED << ns, heap, hooks, files, clock, logger_created, llm_env,
                    calls, reader >>

NextThreads ==
    \E t \in ThreadNames :
         \/ Raise(t)
         \/ Capture(t)
         \/ GetClient(t)
         \/ GenerateValid(t)
         \/ ApplyExec(t)
         \/ CounterLoad(t)
         \/ CounterStore(t)
         \/ Log(t)
         \/ LogAfterError(t)

SpecThreads == InitThreads /\ [][NextThreads]_vars

\* The logger study: a DebugLogger used directly, as debug_viewer.py and
\* handle use it: sessions are logged, and the read side is called.
LogExceptions ==
    { ExcMsg(<<F_divide>>, FALSE, PlainMessage),
      ExcMsg(<<F_divide>>, FALSE, QuotingMessage),
      ExcMsg(<<F_parse>>,  FALSE, PlainMessage) }

InitLog ==
    /\ ns = InitNs
    /\ heap = InitHeap
    /\ patches_applied = 0
    /\ hooks = 0
    /\ files = << >>
    /\ clock = 0
    /\ logger_created = TRUE
    /\ llm_env = "client"
    /\ calls = 0
    /\ th = [ t \in {"main"} |-> Idle ]
    /\ reader = NoRead

\* debug_logger.log_ai_session(error_context, patch_proposal, success, ...)
LogSession ==
    /\ calls < MaxLogCalls
    /\ \E e \in LogExceptions, success \in BOOLEAN, write_ok \in BOOLEAN,
          now \in clock..MaxClock :
         /\ files' = log_ai_session(files, now, write_ok, from_traceback(e),
                                    success, success, "response_text",
                                    IF success THEN None ELSE "Patch application failed")
         /\ clock' = now
    /\ calls' = calls + 1
    /\ reader' = NoRead
    /\ UNCHANGED << ns, heap, patches_applied, hooks, logger_created, llm_env, th >>

\* stats = debug_logger.get_session_stats()
GetSessionStats ==
    /\ \E unreadable \in SUBSET DOMAIN files :
         reader' = [ NoRead EXCEPT !.op = "stats", !.unreadable = unreadable,
                                   !.stats = get_session_stats(files, unreadable) ]
    /\ UNCHANGED << ns, heap, patches_applied, hooks, files, clock,
                    logger_created, llm_env, calls, th >>

\* sessions = debug_logger.list_debug_sessions()
ListDebugSessions ==
    /\ reader' = [ NoRead EXCEPT !.op = "list",
                                 !.listing = list_debug_sessions(files) ]
    /\ UNCHANGED << ns, heap, patches_applied, hooks, files, clock,
                    logger_created, llm_env, calls, th >>

NextLog ==
    \/ LogSession
    \/ GetSessionStats
    \/ ListDebugSessions

SpecLog == InitLog /\ [][NextLog]_vars

\* ------------------------------------------------------------------- claims

\* A handle call on thread t has returned to its caller.
Returned(t) == th[t].pc = "returned"

\* _apply_llm_patch was called in the current handle call of thread t.
ApplyCalled(t) == th[t].applied # "not called"

Rank(stage) ==
    CASE stage = "capture" -> 1 [] stage = "generate" -> 2
      [] stage = "apply" -> 3 [] OTHER -> 4

InTrace(t, stage) == \E i \in 1..Len(th[t].trace) : th[t].trace[i] = stage

\* C1: whenever patch_code is not syntactically valid, _apply_llm_patch
\* returns False, also when a def header is found in the text and the name
\* is bound in the resolved namespace.
C1_InvalidPatchRejected ==
    \A t \in Threads :
        (ApplyCalled(t) /\ ~th[t].proposal.patch_code.valid) => th[t].applied = "False"

\* C2: with the hook installed, the original handler is skipped for an
\* exception only if the handle call rebound the target name to a new
\* callable; if no rebinding took place the original handler runs.
C2_SkippedOnlyIfRebound ==
    \A t \in Threads :
        (th[t].mode = "hook" /\ th[t].pc = "done" /\ th[t].orig_calls = 0)
            => th[t].rebound

\* C3: every handle call, however it ends, adds exactly one session record
\* to the log directory.
C3_OneRecordPerHandle ==
    \A t \in Threads :
        Returned(t) => Cardinality(DOMAIN files) = th[t].nfiles0 + 1

\* C4: when a handle call writes a session record, the record says SUCCESS
\* exactly when handle returns True, and FAILED otherwise.
C4_StatusMatchesResult ==
    \A t \in Threads :
        (Returned(t) /\ th[t].wrote) =>
            /\ th[t].logname \in DOMAIN files
            /\ (files[th[t].logname].status = "SUCCESS") <=> (th[t].ret = "True")
            /\ (files[th[t].logname].status = "FAILED") <=> (th[t].ret # "True")

C4_Witness ==
    \E t \in Threads :
        /\ Returned(t) /\ th[t].wrote /\ th[t].ret = "True"
        /\ files[th[t].logname].status = "SUCCESS"

\* C5: handle returns True only if, in that call, the generator returned a
\* proposal and _apply_llm_patch returned True for it.
C5_TrueOnlyIfGeneratedAndApplied ==
    \A t \in Threads :
        (Returned(t) /\ th[t].ret = "True") =>
            (th[t].has_proposal /\ th[t].applied = "True")

C5_Witness ==
    \E t \in Threads :
        Returned(t) /\ th[t].ret = "True" /\ th[t].has_proposal /\ th[t].applied = "True"

C7_AnyFaultReturnsFalse ==
    \A t \in Threads :
        (Returned(t) /\ th[t].faults # {} /\ th[t].proposal.patch_code.valid)
            => th[t].ret = "False"

\* C7, amended: a fault that a stage raises into handle (context capture,
\* obtaining the LLM client, obtaining the logger) makes handle return False.
C7_RaisedFaultReturnsFalse ==
    \A t \in Threads :
        (Returned(t) /\ th[t].faults \cap {"capture", "client", "logger"} # {})
            => th[t].ret = "False"

C7_Witness ==
    \E t \in Threads :
        /\ Returned(t) /\ "logger" \in th[t].faults
        /\ th[t].applied = "True" /\ th[t].ret = "False"

\* C8: within one handle call nothing is retried: capture, generate and
\* apply each happen at most once, apply only after the generator returned a
\* proposal, and the stages come in the order capture, generate, apply, log.
C8_NoRetry ==
    \A t \in Threads :
        /\ \A i, j \in 1..Len(th[t].trace) :
               i < j => Rank(th[t].trace[i]) < Rank(th[t].trace[j])
        /\ InTrace(t, "generate") => InTrace(t, "capture")
        /\ InTrace(t, "apply") => (InTrace(t, "generate") /\ th[t].has_proposal)
        /\ InTrace(t, "log") => InTrace(t, "generate")
        /\ Returned(t) => InTrace(t, "capture")

C8_Witness ==
    \E t \in Threads :
        Returned(t) /\ th[t].trace = << "capture", "generate", "apply", "log" >>

\* A valid proposal that redefines a name bound to a function, applied with
\* a true result in the current handle call of thread t.
Redefined(t) ==
    /\ th[t].applied = "True"
    /\ th[t].proposal.patch_code.valid
    /\ th[t].proposal.patch_code.effect = "def"
    /\ th[t].proposal.patch_code.target = th[t].target
    /\ hasattr(th[t].ns0, th[t].space, th[t].target)
    /\ Callable(th[t].heap0[th[t].ns0[th[t].space][th[t].target]])

\* C9: hot-swap is a rebinding: after a true apply of a valid proposal that
\* redefines f, looking f up in the namespace yields the new definition,
\* a reference to the old function object still denotes the old function,
\* and under the fixed divide, divide(4,2) = 2 and divide(4,0) = None.
C9_HotSwapRebinds ==
    \A t \in Threads :
        Redefined(t) =>
            LET new == ns[th[t].space][th[t].target]
                old == th[t].ns0[th[t].space][th[t].target]
                was == th[t].heap0[old]
            IN  /\ hasattr(ns, th[t].space, th[t].target)
                /\ new # old
                /\ heap[new] = th[t].proposal.patch_code.body
                /\ heap[old] = was
                /\ (th[t].proposal.patch_code = C_fix /\ was = "divide_orig") =>
                       /\ Call(heap[new], 4, 2) = [kind |-> "value", v |-> 2]
                       /\ Call(heap[new], 4, 0).kind = "none"
                       /\ Call(heap[old], 4, 2) = [kind |-> "value", v |-> 2]
                       /\ Call(heap[old], 4, 0).kind = "raise"

C9_Witness ==
    \E t \in Threads :
        /\ Redefined(t) /\ Returned(t) /\ th[t].ret = "True"
        /\ th[t].proposal.patch_code = C_fix
        /\ th[t].heap0[th[t].ns0["__main__"]["divide"]] = "divide_orig"
        /\ heap[ns["__main__"]["divide"]] = "divide_fixed"

\* C10: when patch_code is not syntactically valid, apply leaves every
\* binding of the namespace unchanged and patches_applied is not incremented.
C10_InvalidPatchChangesNothing ==
    \A t \in Threads :
        (ApplyCalled(t) /\ ~th[t].proposal.patch_code.valid) =>
            /\ ns = th[t].ns0
            /\ \A i \in 1..Len(th[t].heap0) : heap[i] = th[t].heap0[i]
            /\ patches_applied = th[t].pa0

\* C11: apply returns True only if, after the patch source has run, the
\* extracted name is bound in the resolved namespace and the value bound to
\* it is callable.  Stated for patch texts that compile.
C11_TrueOnlyIfBoundCallable ==
    \A t \in Threads :
        (th[t].applied = "True" /\ th[t].proposal.patch_code.valid) =>
            /\ hasattr(ns, th[t].space, th[t].target)
            /\ Callable(heap[ns[th[t].space][th[t].target]])

\* C12: apply runs the patch source only when a name was extracted and that
\* name is bound to a callable in the resolved namespace beforehand;
\* otherwise it returns False, runs nothing and leaves the namespace as it was.
C12_ExecutedOnlyOverCallable ==
    \A t \in Threads :
        ApplyCalled(t) =>
            /\ th[t].executed =>
                   /\ th[t].target # NoName
                   /\ hasattr(th[t].ns0, th[t].space, th[t].target)
                   /\ Callable(th[t].heap0[th[t].ns0[th[t].space][th[t].target]])
            /\ ~th[t].executed =>
                   /\ th[t].applied = "False"
                   /\ ns = th[t].ns0
                   /\ heap = th[t].heap0

\* C13 as stated: namespace resolution always yields a namespace, the
\* top-level one for every way the import can fail.
C13_AlwaysANamespace ==
    \A t \in Threads : ApplyCalled(t) => th[t].space \in Modules

\* C13, amended: resolution never raises and yields __main__ when it has the
\* last component of the FQN as an attribute; otherwise the imported module
\* when the module path is not 'unknown' and the import succeeds; otherwise
\* __main__ when the path is 'unknown' or the import raises ImportError; and
\* None when the import raises anything else, on which apply returns False
\* without running the patch.
C13_ResolutionOrder ==
    \A t \in Threads :
        ApplyCalled(t) =>
            LET fqn    == th[t].ctx.target_fqn
                inMain == hasattr(th[t].ns0, "__main__", LastComponent(fqn))
                path   == ModulePath(fqn)
                module == import_module(path)
            IN  /\ inMain => th[t].space = "__main__"
                /\ (~inMain /\ path # <<"unknown">> /\ module \in Modules)
                       => th[t].space = module
                /\ (~inMain /\ (path = <<"unknown">> \/ module = "ImportError"))
                       => th[t].space = "__main__"
                /\ (~inMain /\ path # <<"unknown">>
                            /\ module \notin Modules \cup {"ImportError"})
                       => /\ th[t].space = None
                          /\ th[t].applied = "False"
                          /\ ~th[t].executed
                          /\ ns = th[t].ns0

C13_Witness ==
    \E t \in Threads :
        /\ ApplyCalled(t)
        /\ th[t].ctx.target_fqn = <<"broken", "load">>
        /\ th[t].target # NoName
        /\ th[t].space = None
        /\ th[t].applied = "False"

\* C14 as stated: a reply that parses directly as a JSON object yields a
\* proposal built from it.
C14_JsonObjectYieldsProposal ==
    \A t \in Threads :
        (InTrace(t, "generate") /\ th[t].reply.transport_ok
            /\ th[t].reply.form \in {"json", "json_illtyped"})
            => th[t].has_proposal

\* C14, amended: the parse step never raises and decides three ways: a reply
\* that parses directly as a JSON object whose fields have the proposal's
\* types yields a proposal built from it (absent fields taking defaults);
\* otherwise, if the direct parse failed, a fenced json block holding such an
\* object yields a proposal built from the block; every other reply yields
\* null.
C14_ParseDecision ==
    \A t \in Threads :
        (InTrace(t, "generate") /\ th[t].reply.transport_ok) =>
            /\ th[t].has_proposal <=> th[t].reply.form \in {"json", "fenced"}
            /\ th[t].has_proposal =>
                   /\ th[t].proposal = Proposal(IF th[t].reply.has_patch_code
                                                THEN th[t].reply.code ELSE C_empty)
                   /\ th[t].raw = "response_text"
            /\ ~th[t].has_proposal => th[t].raw = "No response from LLM"
            /\ "generate" \notin th[t].faults

C14_Witness ==
    \E t \in Threads :
        /\ InTrace(t, "generate")
        /\ th[t].reply = Reply(TRUE, "fenced", TRUE, C_fix)
        /\ th[t].has_proposal
        /\ th[t].proposal.patch_code = C_fix

\* C15: an error raised by the model service call makes both generator
\* variants return null; handle then applies nothing, returns False, and the
\* session it logs is a failed one (a record is written unless the logger
\* itself fails).
C15_ServiceErrorGivesNoProposal ==
    \A t \in Threads :
        (InTrace(t, "generate") /\ ~th[t].reply.transport_ok) =>
            /\ ~analyze_exception_and_generate_patch_with_raw(th[t].reply).some
            /\ ~analyze_exception_and_generate_patch(th[t].reply).some
            /\ ~th[t].has_proposal
            /\ ~ApplyCalled(t)
            /\ "generate" \notin th[t].faults
            /\ Returned(t) =>
                   /\ th[t].ret = "False"
                   /\ th[t].faults = {} => th[t].wrote
                   /\ th[t].wrote =>
                          /\ files[th[t].logname].status = "FAILED"
                          /\ ~files[th[t].logname].patch

C15_Witness ==
    \E t \in Threads :
        /\ Returned(t)
        /\ th[t].reply = Reply(FALSE, "json", TRUE, C_fix)
        /\ th[t].ret = "False"
        /\ th[t].wrote
        /\ files[th[t].logname].status = "FAILED"

\* C16: a reply that is a JSON object without the patch_code field yields no
\* proposal: apply is not reached, and the session is logged with the reason
\* that no patch could be generated.
C16_MissingFieldGivesNoProposal ==
    \A t \in Threads :
        (InTrace(t, "generate") /\ th[t].reply.transport_ok
            /\ th[t].reply.form \in {"json", "fenced"}
            /\ ~th[t].reply.has_patch_code) =>
            /\ ~th[t].has_proposal
            /\ ~ApplyCalled(t)
            /\ (Returned(t) /\ th[t].wrote) =>
                   files[th[t].logname].error = "LLM could not generate a patch"

\* C17: a failure while persisting the session record (creating the log
\* directory, opening or writing the file) leaves handle's result what it
\* would have been: True when the patch was applied.  Stated for the calls
\* whose proposal is syntactically valid or absent.
C17_LogFailureKeepsResult ==
    \A t \in Threads :
        (Returned(t) /\ th[t].faults # {} /\ th[t].faults \subseteq {"logger", "write"}
            /\ th[t].proposal.patch_code.valid) =>
            th[t].ret = (IF th[t].applied = "True" THEN "True" ELSE "False")

\* C18: get_session_stats reports as total_sessions the number of stored
\* records and as successful_sessions the number of stored records that
\* were logged with success = true, whatever text the records contain.
C18_StatsCountSuccessfulRecords ==
    (reader.op = "stats" /\ reader.unreadable = {}) =>
        /\ reader.stats.total_sessions = Cardinality(DOMAIN files)
        /\ reader.stats.successful_sessions =
               Cardinality({ f \in DOMAIN files : files[f].status = "SUCCESS" })

\* 1000 * s / n rounded to the nearest integer, ties to even: the
\* percentage in tenths.
RoundTenths(s, n) ==
    LET q == (1000 * s) \div n
        r == (1000 * s) % n
    IN  IF 2 * r > n \/ (2 * r = n /\ q % 2 = 1) THEN q + 1 ELSE q

\* C19: for n records of which s carry the success marker, get_session_stats
\* reports total = n, successful = s, failed = n - s and success_rate =
\* 100*s/n rounded to one decimal place, 0 when n = 0.
C19_StatsArithmetic ==
    (reader.op = "stats" /\ reader.unreadable = {}) =>
        LET n == Cardinality(DOMAIN files)
            s == Cardinality({ f \in DOMAIN files : Contains(files[f].text, StatusMarker) })
            rate == reader.stats.success_rate
        IN  /\ reader.stats.total_sessions = n
            /\ reader.stats.successful_sessions = s
            /\ reader.stats.failed_sessions = n - s
            /\ n = 0 => rate.num = 0
            /\ n > 0 => 10 * rate.num = RoundTenths(s, n) * rate.den

\* C20: list_debug_sessions returns the records newest first: of any two
\* records in the list, the earlier one has the greater or equal epoch,
\* also across programs and functions.
C20_NewestFirst ==
    reader.op = "list" =>
        \A i, j \in 1..Len(reader.listing) :
            i < j => reader.listing[i][3] >= reader.listing[j][3]

\* C21: session records are append-only: a record file that exists is
\* neither changed nor removed by any later log call.
C21_AppendOnly ==
    [][ \A f \in DOMAIN files : f \in DOMAIN files' /\ files'[f] = files[f] ]_vars

\* C22: for a traceback chain of one or more frames, capture takes
\* file_path, line_number, local_vars and target_fqn from the innermost frame
\* of the chain, the one in which the exception was raised.
C22_InnermostFrame ==
    \A t \in Threads :
        (InTrace(t, "capture") /\ "capture" \notin th[t].faults /\ th[t].exc.tb # NoTb) =>
            LET frame == th[t].exc.tb[Len(th[t].exc.tb)]
            IN  /\ th[t].ctx.file_path = frame.file
                /\ th[t].ctx.line_number = frame.line
                /\ th[t].ctx.local_vars = frame.co_name
                /\ th[t].ctx.target_fqn = <<frame.module, frame.co_name>>

C25_NotTrueChangesNothing ==
    \A t \in Threads :
        (Returned(t) /\ th[t].ret # "True" /\ "logger" \notin th[t].faults) =>
            ns = th[t].ns0

C27_CounterCountsTrueReturns ==
    \A t \in Threads :
        Returned(t) =>
            patches_applied = th[t].pa0 + (IF th[t].ret = "True" THEN 1 ELSE 0)

\* C28: apply returns True only if the name extracted from patch_code is
\* the function component of the context's target_fqn.
C28_PatchedNameIsFailingFunction ==
    \A t \in Threads :
        th[t].applied = "True" => th[t].target = LastComponent(th[t].ctx.target_fqn)

\* Two threads have both returned True from handle, for different proposals.
BothHealed(t1, t2) ==
    /\ t1 # t2
    /\ Returned(t1) /\ th[t1].ret = "True"
    /\ Returned(t2) /\ th[t2].ret = "True"
    /\ th[t1].proposal # th[t2].proposal

\* C29, amended: when two threads run handle concurrently for the same
\* function with two different valid proposals and both calls return True,
\* then afterwards the name is bound to one of the two proposed definitions
\* (not the original, not unbound), and patches_applied has gone up by 1 or
\* by 2: the increment is a read followed by a write, and one of the two
\* updates is lost when both threads read before either writes.
C29_OnePatchWinsCounterMayLose ==
    \A t1, t2 \in Threads :
        BothHealed(t1, t2) =>
            /\ hasattr(ns, "__main__", "divide")
            /\ ns["__main__"]["divide"] # th[t1].ns0["__main__"]["divide"]
            /\ heap[ns["__main__"]["divide"]] \in
                   { th[t1].proposal.patch_code.body, th[t2].proposal.patch_code.body }
            /\ patches_applied \in {1, 2}

C29_Witness ==
    \E t1, t2 \in Threads :
        /\ BothHealed(t1, t2)
        /\ heap[ns["__main__"]["divide"]] = th[t1].proposal.patch_code.body
        /\ patches_applied = 1

\* C29 as stated: when two threads run handle concurrently for the same
\* function with two different valid proposals and both calls return True,
\* then afterwards the name is bound to one of the two proposed definitions
\* and patches_applied has gone up by exactly 2.
C29_BothPatchesCounted ==
    \A t1, t2 \in Threads :
        (/\ t1 # t2
         /\ Returned(t1) /\ th[t1].ret = "True"
         /\ Returned(t2) /\ th[t2].ret = "True"
         /\ th[t1].proposal # th[t2].proposal) =>
            /\ hasattr(ns, "__main__", "divide")
            /\ heap[ns["__main__"]["divide"]] \in
                   { th[t1].proposal.patch_code.body, th[t2].proposal.patch_code.body }
            /\ patches_applied = 2

\* C30: safe_api_call never lets an exception of the wrapped function out
\* and never loops: it calls the function once; if that raises it calls
\* handle exactly once; only after a true result it looks the function up
\* again and calls it at most once more, returning that call's result; it
\* returns None when handle's result was not true or the retry raised.
C30_SafeApiCall ==
    \A t \in Threads :
        th[t].mode = "api" =>
            /\ th[t].api.n \in {1, 2}
            /\ th[t].handles <= 1
            /\ th[t].api.out.kind # "raise"
            /\ th[t].api.n = 2 =>
                   (th[t].pc = "done" /\ th[t].handles = 1 /\ th[t].ret = "True")
            /\ th[t].pc # "done" => th[t].api.out.kind = "pending"
            /\ th[t].pc = "done" =>
                   /\ th[t].api.out.kind \in {"value", "none"}
                   /\ (th[t].handles = 1 /\ th[t].ret # "True") =>
                          (th[t].api.n = 1 /\ th[t].api.out.kind = "none")
                   /\ (th[t].handles = 1 /\ th[t].ret = "True"
                            /\ hasattr(ns, "__main__", "divide")) =>
                          LET r == Call(heap[ns["__main__"]["divide"]], 4, th[t].api.b)
                          IN  /\ th[t].api.n = 2
                              /\ th[t].api.out = IF r.kind = "raise"
                                                 THEN [kind |-> "none", v |-> 0] ELSE r

C30_Witness ==
    \E t \in Threads :
        /\ th[t].mode = "api" /\ th[t].pc = "done"
        /\ th[t].handles = 1 /\ th[t].ret = "True"
        /\ th[t].proposal.patch_code = C_literal
        /\ th[t].api = [ n |-> 2, b |-> 0, out |-> [kind |-> "value", v |-> 0] ]

====
